---- MODULE Spec2Model ----
(***************************************************************************)
(* A model of package config of the QingCloud SDK (src/config/config.go):  *)
(* the Config record, its three constructors and its four loaders, with    *)
(* the global log level and the files the loaders read.                    *)
(*                                                                         *)
(* A Go string is a sequence of one-character strings, so that the         *)
(* endpoint parsing of NewWithEndpoint (url.Parse, strings.Split,          *)
(* strconv.Atoi) is computed character by character as the code does.      *)
(***************************************************************************)
EXTENDS Integers, Sequences, FiniteSets, TLC

VARIABLES
    c,                          \* the *Config the caller holds (Nil: none)
    logLevel,                   \* the logger package's global level
    fs,                         \* the files the loaders read, by resolved path
    DefaultConfigFileContent,   \* the built-in default document of the build
    last                        \* the last call: [op, arg, err, again]

vars == <<c, logLevel, fs, DefaultConfigFileContent, last>>

(***************************************************************************)
(* Bounds of the model.                                                    *)
(***************************************************************************)
\* The longest document (in lines) handed to LoadConfigFromContent.
MaxDocLen == 2

(***************************************************************************)
(* Package strings and strconv, on sequences of characters.                *)
(***************************************************************************)
Digits == {"0", "1", "2", "3", "4", "5", "6", "7", "8", "9"}

Letters ==
    {"a", "b", "c", "d", "e", "f", "g", "h", "i", "j", "k", "l", "m",
     "n", "o", "p", "q", "r", "s", "t", "u", "v", "w", "x", "y", "z",
     "A", "K", "S"}

DigitVal(d) ==
    CASE d = "0" -> 0 [] d = "1" -> 1 [] d = "2" -> 2 [] d = "3" -> 3
      [] d = "4" -> 4 [] d = "5" -> 5 [] d = "6" -> 6 [] d = "7" -> 7
      [] d = "8" -> 8 [] d = "9" -> 9

\* strings.Index(s, ch) + 1 for a one-character ch: 0 when ch is not in s.
Index(s, ch) ==
    IF \E i \in 1..Len(s) : s[i] = ch
    THEN CHOOSE i \in 1..Len(s) : s[i] = ch /\ \A j \in 1..(i - 1) : s[j] # ch
    ELSE 0

\* strings.LastIndex(s, ch) + 1 for a one-character ch.
LastIndex(s, ch) ==
    IF \E i \in 1..Len(s) : s[i] = ch
    THEN CHOOSE i \in 1..Len(s) : s[i] = ch /\ \A j \in (i + 1)..Len(s) : s[j] # ch
    ELSE 0

\* strings.Contains(s, ch) for a one-character ch.
Contains(s, ch) == Index(s, ch) # 0

\* strings.HasPrefix(s, p).
HasPrefix(s, p) == Len(s) >= Len(p) /\ SubSeq(s, 1, Len(p)) = p

\* s[i:] of Go, for a 1-based i.
From(s, i) == SubSeq(s, i, Len(s))

\* strings.Split(s, ch) for a one-character ch: the pieces between the
\* separators, in order; a string without ch is its own single piece.
RECURSIVE Split(_, _)
Split(s, ch) ==
    LET i == Index(s, ch)
    IN  IF i = 0 THEN <<s>>
        ELSE <<SubSeq(s, 1, i - 1)>> \o Split(From(s, i + 1), ch)

\* The value of a string of digits, most significant first.
RECURSIVE DigitsValue(_, _)
DigitsValue(s, acc) ==
    IF s = <<>> THEN acc ELSE DigitsValue(Tail(s), acc * 10 + DigitVal(Head(s)))

\* strconv.Atoi(s): an optional sign, then one or more digits, else an error.
Atoi(s) ==
    LET signed == s # <<>> /\ Head(s) \in {"+", "-"}
        body == IF signed THEN Tail(s) ELSE s
    IN  IF body = <<>> \/ \E i \in 1..Len(body) : body[i] \notin Digits
        THEN [ok |-> FALSE, val |-> 0]
        ELSE [ok |-> TRUE,
              val |-> IF signed /\ Head(s) = "-"
                      THEN 0 - DigitsValue(body, 0)
                      ELSE DigitsValue(body, 0)]

(***************************************************************************)
(* Package net/url: url.Parse, as far as NewWithEndpoint reads its result  *)
(* (Scheme, Host, Path).                                                   *)
(***************************************************************************)
\* getScheme: the scheme before the first ':' when everything before it is
\* a letter, or a digit, '+', '-', '.' after the first character.
\* at = 0: no scheme; at > 0: the scheme is s[1..at-1]; at = -1: an error
\* ("missing protocol scheme", a ':' in first place).
RECURSIVE getSchemeAt(_, _)
getSchemeAt(s, i) ==
    IF i > Len(s) THEN 0
    ELSE IF s[i] \in Letters THEN getSchemeAt(s, i + 1)
    ELSE IF s[i] \in Digits \cup {"+", "-", "."}
         THEN IF i = 1 THEN 0 ELSE getSchemeAt(s, i + 1)
    ELSE IF s[i] = ":" THEN IF i = 1 THEN -1 ELSE i
    ELSE 0

\* validOptionalPort: "" or ':' followed by digits only (none is allowed).
validOptionalPort(port) ==
    \/ port = <<>>
    \/ /\ Head(port) = ":"
       /\ \A i \in 2..Len(port) : port[i] \in Digits

\* parseHost: a host in brackets must close them and be followed by a valid
\* optional port; any other host's text from its last ':' must be one.
parseHostOK(host) ==
    IF HasPrefix(host, <<"[">>)
    THEN LET i == LastIndex(host, "]")
         IN  i # 0 /\ validOptionalPort(From(host, i + 1))
    ELSE LET i == LastIndex(host, ":")
         IN  i = 0 \/ validOptionalPort(From(host, i))

\* parseAuthority: the host is what follows the last '@'.
AuthorityHost(authority) ==
    LET i == LastIndex(authority, "@")
    IN  IF i = 0 THEN authority ELSE From(authority, i + 1)

\* url.Parse(rawURL): [ok, Scheme, Host, Path].
Parse(rawURL) ==
    LET bad == [ok |-> FALSE, Scheme |-> <<>>, Host |-> <<>>, Path |-> <<>>]
        hash == Index(rawURL, "#")
        u == IF hash = 0 THEN rawURL ELSE SubSeq(rawURL, 1, hash - 1)
        at == getSchemeAt(u, 1)
        scheme == IF at > 0 THEN SubSeq(u, 1, at - 1) ELSE <<>>
        rest0 == IF at > 0 THEN From(u, at + 1) ELSE u
        q == Index(rest0, "?")
        rest == IF q = 0 THEN rest0 ELSE SubSeq(rest0, 1, q - 1)
        slash == Index(rest, "/")
        segment == IF slash = 0 THEN rest ELSE SubSeq(rest, 1, slash - 1)
    IN  IF at = -1 THEN bad
        ELSE IF ~HasPrefix(rest, <<"/">>)
        THEN IF scheme # <<>>
             THEN \* an opaque URL: no host, no path
                  [ok |-> TRUE, Scheme |-> scheme, Host |-> <<>>, Path |-> <<>>]
             ELSE IF Contains(segment, ":") THEN bad
             ELSE [ok |-> TRUE, Scheme |-> scheme, Host |-> <<>>, Path |-> rest]
        ELSE IF (scheme # <<>> \/ ~HasPrefix(rest, <<"/", "/", "/">>))
                /\ HasPrefix(rest, <<"/", "/">>)
        THEN LET after == From(rest, 3)
                 j == Index(after, "/")
                 authority == IF j = 0 THEN after ELSE SubSeq(after, 1, j - 1)
                 path == IF j = 0 THEN <<>> ELSE From(after, j)
                 host == AuthorityHost(authority)
             IN  IF parseHostOK(host)
                 THEN [ok |-> TRUE, Scheme |-> scheme, Host |-> host, Path |-> path]
                 ELSE bad
        ELSE [ok |-> TRUE, Scheme |-> scheme, Host |-> <<>>, Path |-> rest]

(***************************************************************************)
(* The Config record (type Config) and the clients it is given.            *)
(***************************************************************************)
\* Text constants, as sequences of characters.
S_https == <<"h", "t", "t", "p", "s">>
S_http == <<"h", "t", "t", "p">>
S_warn == <<"w", "a", "r", "n">>
S_debug == <<"d", "e", "b", "u", "g">>
S_info == <<"i", "n", "f", "o">>
S_iaas == <<"/", "i", "a", "a", "s">>

\* A nil *Config: what a failed constructor returns.
Nil == [nil |-> TRUE]

\* Config.Connection: nil, &http.Client{} (the default transport, no dial
\* timeout), or a client whose transport dials with net.DialTimeout(timeout),
\* the timeout in seconds.
NilClient == [transport |-> "nil", timeout |-> 0]

DefaultClient == [transport |-> "default", timeout |-> 0]

DialClient(seconds) == [transport |-> "dial", timeout |-> seconds]

\* &Config{}: every field at its zero value.
ZeroConfig ==
    [AccessKeyID |-> <<>>, SecretAccessKey |-> <<>>, Host |-> <<>>, Port |-> 0,
     Protocol |-> <<>>, URI |-> <<>>, ConnectionRetries |-> 0,
     ConnectionTimeout |-> 0, LogLevel |-> <<>>, Zone |-> <<>>,
     Connection |-> NilClient]

\* The yaml tags of Config's fields: the recognised keys of a document.
Keys ==
    {"qy_access_key_id", "qy_secret_access_key", "host", "port", "protocol",
     "uri", "connection_retries", "connection_timeout", "log_level", "zone"}

\* The keys of the int fields.
IntKeys == {"port", "connection_retries", "connection_timeout"}

\* The field a yaml tag names.
FieldOf(key) ==
    CASE key = "qy_access_key_id" -> "AccessKeyID"
      [] key = "qy_secret_access_key" -> "SecretAccessKey"
      [] key = "host" -> "Host"
      [] key = "port" -> "Port"
      [] key = "protocol" -> "Protocol"
      [] key = "uri" -> "URI"
      [] key = "connection_retries" -> "ConnectionRetries"
      [] key = "connection_timeout" -> "ConnectionTimeout"
      [] key = "log_level" -> "LogLevel"
      [] key = "zone" -> "Zone"

(***************************************************************************)
(* Documents.  A document is a sequence of lines [key, val]: the mapping   *)
(* entry "key: val", val a text.  A line whose key is "" is not a mapping  *)
(* entry, and a document holding one does not decode.                      *)
(***************************************************************************)
Line(key, val) == [key |-> key, val |-> val]

BadLine == Line("", <<"%">>)

\* A line decodes when it is a mapping entry and, if its key names an int
\* field, its value is a number.
LineOK(line) ==
    /\ line.key # ""
    /\ line.key \in IntKeys => Atoi(line.val).ok

\* One decoded line laid over a record: an unrecognised key is ignored.
ApplyLine(cfg, line) ==
    IF line.key \notin Keys THEN cfg
    ELSE [cfg EXCEPT ![FieldOf(line.key)] =
             IF line.key \in IntKeys THEN Atoi(line.val).val ELSE line.val]

RECURSIVE ApplyLines(_, _)
ApplyLines(cfg, content) ==
    IF content = <<>> THEN cfg
    ELSE ApplyLines(ApplyLine(cfg, Head(content)), Tail(content))

\* utils.YAMLDecode(content, c): a document that does not decode is rejected
\* as a whole and leaves the record alone; otherwise each key it holds
\* overwrites its field, a later line over an earlier one, and the fields it
\* does not name keep their values.
YAMLDecode(content, cfg) ==
    IF \E i \in 1..Len(content) : ~LineOK(content[i])
    THEN [err |-> TRUE, c |-> cfg]
    ELSE [err |-> FALSE, c |-> ApplyLines(cfg, content)]

\* The built-in default document of a correct build: it sets every
\* recognised key, so that decoding it is a full reset.
DefaultDocument(timeout) ==
    << Line("qy_access_key_id", <<"A", "K", "0">>),
       Line("qy_secret_access_key", <<"S", "K", "0">>),
       Line("host", <<"q", "c", ".", "i", "o">>),
       Line("port", <<"4", "4", "3">>),
       Line("protocol", S_https),
       Line("uri", S_iaas),
       Line("connection_retries", <<"3">>),
       Line("connection_timeout", timeout),
       Line("log_level", S_warn),
       Line("zone", <<"p", "e", "k">>) >>

\* The builds: the default document with connection_timeout 30 or 15, and a
\* mispackaged build whose default document does not decode.
Builds == {DefaultDocument(<<"3", "0">>), DefaultDocument(<<"1", "5">>), <<BadLine>>}

(***************************************************************************)
(* Files.                                                                  *)
(***************************************************************************)
\* A path is the sequence of its segments ("~/qc.yaml" is <<"~", "qc.yaml">>,
\* "/etc" is <<"", "etc">>).
getHome == <<"", "home", "u">>

\* GetUserConfigFilePath(): ~/.qingcloud/config.yaml, resolved.
GetUserConfigFilePath == getHome \o <<".qingcloud", "config.yaml">>

OtherFilePath == getHome \o <<"qc.yaml">>

Absent == [exists |-> FALSE, data |-> <<>>]

File(content) == [exists |-> TRUE, data |-> content]

\* ioutil.ReadFile / os.Stat: the file at a resolved path.
ReadFile(files, path) == IF path \in DOMAIN files THEN files[path] ELSE Absent

\* InstallDefaultUserConfig(): writes the default document at the user path;
\* ok is whether the directory and the file could be written.
InstallDefaultUserConfig(files, ok) ==
    IF ok THEN [files EXCEPT ![GetUserConfigFilePath] = File(DefaultConfigFileContent)]
    ELSE files

(***************************************************************************)
(* The operations.  Each takes the world w = [c, logLevel, fs] it runs in  *)
(* (constructors: only the global log level and the files) and returns the *)
(* world it leaves, with err, the error it returns ("nil": none).          *)
(***************************************************************************)
World(cfg, level, files) == [c |-> cfg, logLevel |-> level, fs |-> files]

Result(w, err) == [c |-> w.c, logLevel |-> w.logLevel, fs |-> w.fs, err |-> err]

\* logger.SetLevel(level): sets the global level.
SetLevel(w, level) == [w EXCEPT !.logLevel = level]

\* func (c *Config) LoadDefaultConfig() error
LoadDefaultConfig(w) ==
    LET d == YAMLDecode(DefaultConfigFileContent, w.c)
    IN  IF d.err THEN Result(w, "DecodeError")
        ELSE Result(SetLevel([w EXCEPT !.c = d.c], d.c.LogLevel), "nil")

\* NewDefault with the dial timeout computed before the defaults are loaded
\* (from the zero record).
NewDefault_TimeoutBeforeLoad(w) ==
    LET r == LoadDefaultConfig([w EXCEPT !.c = ZeroConfig])
    IN  IF r.err # "nil" THEN [r EXCEPT !.c = Nil]
        ELSE [r EXCEPT !.c.Connection = DialClient(ZeroConfig.ConnectionTimeout)]

\* func NewDefault() (*Config, error)
NewDefault(w) ==
    LET r == LoadDefaultConfig([w EXCEPT !.c = ZeroConfig])
    IN  IF r.err # "nil" THEN [r EXCEPT !.c = Nil]
        ELSE [r EXCEPT !.c.Connection = DialClient(r.c.ConnectionTimeout)]

\* New without its own client: the record keeps the client of NewDefault.
New_KeepsDialClient(w, accessKeyID, secretAccessKey) ==
    LET r == NewDefault(w)
    IN  IF r.err # "nil" THEN [r EXCEPT !.c = Nil]
        ELSE [r EXCEPT !.c.AccessKeyID = accessKeyID,
                       !.c.SecretAccessKey = secretAccessKey]

\* func New(accessKeyID, secretAccessKey string) (*Config, error)
New(w, accessKeyID, secretAccessKey) ==
    LET r == NewDefault(w)
    IN  IF r.err # "nil" THEN [r EXCEPT !.c = Nil]
        ELSE [r EXCEPT !.c.AccessKeyID = accessKeyID,
                       !.c.SecretAccessKey = secretAccessKey,
                       !.c.Connection = DefaultClient]

\* func NewWithEndpoint(accessKeyID, secretAccessKey, endpoint string) (*Config, error)
NewWithEndpoint(w, accessKeyID, secretAccessKey, endpoint) ==
    LET qcUrl == Parse(endpoint)
        r == NewDefault(w)
        hostPort == Split(qcUrl.Host, ":")
        port == Atoi(hostPort[2])
    IN  IF ~qcUrl.ok THEN [Result(w, "URLParseError") EXCEPT !.c = Nil]
        ELSE IF ~Contains(qcUrl.Host, ":")
        THEN [Result(w, "MissingPortError") EXCEPT !.c = Nil]
        ELSE IF r.err # "nil" THEN [r EXCEPT !.c = Nil]
        ELSE IF ~port.ok THEN [r EXCEPT !.c = Nil, !.err = "AtoiError"]
        ELSE [r EXCEPT !.c.AccessKeyID = accessKeyID,
                       !.c.SecretAccessKey = secretAccessKey,
                       !.c.Host = hostPort[1],
                       !.c.Port = port.val,
                       !.c.Protocol = qcUrl.Scheme,
                       !.c.URI = qcUrl.Path,
                       !.c.Connection = DefaultClient]

\* LoadConfigFromContent without the reset to the defaults.
LoadConfigFromContent_NoReset(w, content) ==
    LET d == YAMLDecode(content, w.c)
    IN  IF d.err THEN Result(w, "DecodeError")
        ELSE [Result(w, "nil") EXCEPT
                 !.c = [d.c EXCEPT !.Connection = DialClient(d.c.ConnectionTimeout)],
                 !.logLevel = d.c.LogLevel]

\* LoadConfigFromContent with the dial timeout read before the record is
\* reloaded.
LoadConfigFromContent_StaleTimeout(w, content) ==
    LET r == LoadDefaultConfig(w)
        d == YAMLDecode(content, r.c)
    IN  IF d.err THEN [r EXCEPT !.err = "DecodeError"]
        ELSE [r EXCEPT !.c = [d.c EXCEPT !.Connection = DialClient(w.c.ConnectionTimeout)],
                       !.logLevel = d.c.LogLevel,
                       !.err = "nil"]

\* func (c *Config) LoadConfigFromContent(content []byte) error
LoadConfigFromContent(w, content) ==
    LET r == LoadDefaultConfig(w)   \* its error is dropped
        d == YAMLDecode(content, r.c)
    IN  IF d.err THEN [r EXCEPT !.err = "DecodeError"]
        ELSE [r EXCEPT !.c = [d.c EXCEPT !.Connection = DialClient(d.c.ConnectionTimeout)],
                       !.logLevel = d.c.LogLevel,
                       !.err = "nil"]

\* The leading "~/" of a path replaced by the home directory.
ExpandHome(filepath) ==
    IF Len(filepath) >= 2 /\ filepath[1] = "~"
    THEN getHome \o Tail(filepath)
    ELSE filepath

\* LoadConfigFromFilepath with the reset to the defaults done before the
\* file is read.
LoadConfigFromFilepath_ResetFirst(w, filepath) ==
    LET r == LoadDefaultConfig(w)
        configYAML == ReadFile(w.fs, ExpandHome(filepath))
    IN  IF ~configYAML.exists THEN [r EXCEPT !.err = "FileIOError"]
        ELSE LoadConfigFromContent(w, configYAML.data)

\* func (c *Config) LoadConfigFromFilepath(filepath string) error
LoadConfigFromFilepath(w, filepath) ==
    LET configYAML == ReadFile(w.fs, ExpandHome(filepath))
    IN  IF ~configYAML.exists THEN Result(w, "FileIOError")
        ELSE LoadConfigFromContent(w, configYAML.data)

\* LoadUserConfig without the installation of the default file.
LoadUserConfig_NoInstall(w, installOK) ==
    LoadConfigFromFilepath(w, GetUserConfigFilePath)

\* func (c *Config) LoadUserConfig() error; installOK is whether
\* InstallDefaultUserConfig, if called, can write the file.
LoadUserConfig(w, installOK) ==
    LET stat == ReadFile(w.fs, GetUserConfigFilePath)
        w1 == IF ~stat.exists
              THEN [w EXCEPT !.fs = InstallDefaultUserConfig(w.fs, installOK)]
              ELSE w
    IN  LoadConfigFromFilepath(w1, GetUserConfigFilePath)

(***************************************************************************)
(* The inputs the calls are given.                                         *)
(***************************************************************************)
\* The (accessKeyID, secretAccessKey) pairs handed to the constructors.
Credentials ==
    { << <<"A", "K", "1">>, <<"S", "K", "1">> >>,
      << <<"A", "K", "2">>, <<"S", "K", "2">> >> }

\* The endpoints handed to NewWithEndpoint: scheme://host[:port][path] for
\* plain hosts and IPv6 literals, with a port, an empty port, a port that is
\* not a number and none; and endpoints without scheme or without "//".
EndpointHosts ==
    { <<"q", "c", ".", "i", "o">>,
      <<"[", ":", ":", "1", "]">>,
      <<"[", "1", ":", "2", ":", ":", "3", "]">> }

EndpointPorts == { <<>>, <<":">>, <<":", "8", "0">>, <<":", "8", "a">> }

EndpointPaths == { <<>>, S_iaas }

Endpoints ==
    { S_https \o <<":", "/", "/">> \o h \o p \o u :
          h \in EndpointHosts, p \in EndpointPorts, u \in EndpointPaths }
    \cup { S_http \o <<":", "/", "/", "u", "@", "q", "c", ":", "8", "0", "8", "0", "/", "v", "1", "?", "a", "#", "f">>,
           <<"/", "/", "q", "c", ":", "8", "0">>,
           <<"q", "c", ":", "8", "0">>,
           <<":", "8", "0">> }

\* The lines of the documents handed to LoadConfigFromContent.
ContentLines ==
    { Line("host", <<"e", "x", ".", "c", "o", "m">>),
      Line("connection_timeout", <<"1", "5">>),
      Line("connection_timeout", <<"6", "0">>),
      Line("log_level", S_debug),
      Line("region", <<"x">>),
      BadLine }

Documents == UNION { [1..n -> ContentLines] : n \in 0..MaxDocLen }

\* The files that may lie at the user path and at ~/qc.yaml.
UserFiles ==
    { Absent,
      File(<< Line("host", <<"e", "x", ".", "c", "o", "m">>),
              Line("connection_timeout", <<"1", "5">>) >>),
      File(<<BadLine>>) }

OtherFiles == { Absent, File(<< Line("log_level", S_debug) >>) }

\* The paths handed to LoadConfigFromFilepath.
FilePaths ==
    { <<"~", "qc.yaml">>,
      OtherFilePath,
      <<"etc", "~", "qc.yaml">>,
      <<"~", ".qingcloud", "config.yaml">> }

(***************************************************************************)
(* The state machine: one action per exported function or method.          *)
(***************************************************************************)
W == World(c, logLevel, fs)

\* A call of op with arg that leaves the world r.
Call(op, arg, again, r) ==
    /\ c' = r.c
    /\ logLevel' = r.logLevel
    /\ fs' = r.fs
    /\ last' = [op |-> op, arg |-> arg, err |-> r.err, again |-> again]
    /\ UNCHANGED DefaultConfigFileContent

Init ==
    /\ c = Nil
    /\ logLevel = S_info
    /\ DefaultConfigFileContent \in Builds
    /\ \E user \in UserFiles, other \in OtherFiles :
           fs = (GetUserConfigFilePath :> user) @@ (OtherFilePath :> other)
    /\ last = [op |-> "init", arg |-> <<>>, err |-> "nil", again |-> FALSE]

CallNewDefault == Call("NewDefault", <<>>, FALSE, NewDefault(W))

CallNew ==
    \E cred \in Credentials :
        Call("New", cred, FALSE, New(W, cred[1], cred[2]))

CallNewWithEndpoint ==
    \E cred \in Credentials, endpoint \in Endpoints :
        Call("NewWithEndpoint", [cred |-> cred, endpoint |-> endpoint], FALSE,
             NewWithEndpoint(W, cred[1], cred[2], endpoint))

CallLoadDefaultConfig ==
    /\ c # Nil
    /\ Call("LoadDefaultConfig", <<>>, FALSE, LoadDefaultConfig(W))

CallLoadUserConfig ==
    /\ c # Nil
    /\ \E installOK \in BOOLEAN :
           Call("LoadUserConfig",
                [absent |-> ~ReadFile(fs, GetUserConfigFilePath).exists,
                 installOK |-> installOK],
                FALSE, LoadUserConfig(W, installOK))

CallLoadConfigFromFilepath ==
    /\ c # Nil
    /\ \E filepath \in FilePaths :
           Call("LoadConfigFromFilepath", filepath, FALSE,
                LoadConfigFromFilepath(W, filepath))

CallLoadConfigFromContent ==
    /\ c # Nil
    /\ \E content \in Documents :
           Call("LoadConfigFromContent", content,
                /\ last.op = "LoadConfigFromContent"
                /\ last.err = "nil"
                /\ last.arg = content,
                LoadConfigFromContent(W, content))

Next ==
    \/ CallNewDefault
    \/ CallNew
    \/ CallNewWithEndpoint
    \/ CallLoadDefaultConfig
    \/ CallLoadUserConfig
    \/ CallLoadConfigFromFilepath
    \/ CallLoadConfigFromContent

Spec == Init /\ [][Next]_vars

(***************************************************************************)
(* What the properties are stated in: the components of a parsed URL as    *)
(* net/url reports them (URL.Hostname, URL.Port), and the value a document *)
(* gives a key, read off the document's lines.                             *)
(***************************************************************************)
\* The port of a URL's Host (URL.Port): the text after the last ':' when
\* that is a valid optional port, else none.
URLPort(host) ==
    LET colon == LastIndex(host, ":")
    IN  IF colon # 0 /\ validOptionalPort(From(host, colon))
        THEN From(host, colon + 1)
        ELSE <<>>

\* The host name of a URL's Host (URL.Hostname): without the port and
\* without the brackets of an IPv6 literal.
URLHostname(host) ==
    LET colon == LastIndex(host, ":")
        h == IF colon # 0 /\ validOptionalPort(From(host, colon))
             THEN SubSeq(host, 1, colon - 1)
             ELSE host
    IN  IF Len(h) >= 2 /\ h[1] = "[" /\ h[Len(h)] = "]"
        THEN SubSeq(h, 2, Len(h) - 1)
        ELSE h

\* The lines of a document that give key a value.
LinesOf(content, key) == {i \in 1..Len(content) : content[i].key = key}

HasKey(content, key) == LinesOf(content, key) # {}

\* The value a document gives a key: that of its last line with the key,
\* as a number for an int field.
ValueIn(content, key) ==
    LET I == LinesOf(content, key)
        v == content[CHOOSE i \in I : \A j \in I : j <= i].val
    IN  IF key \in IntKeys THEN DigitsValue(v, 0) ELSE v

\* The built-in default document decodes.
DefaultDecodes ==
    \A i \in 1..Len(DefaultConfigFileContent) : LineOK(DefaultConfigFileContent[i])

\* The built-in default value of a key.
DefaultValue(key) == ValueIn(DefaultConfigFileContent, key)

\* The record holds the default value in every field but those of keys.
DefaultsBut(cfg, keys) ==
    \A k \in Keys \ keys : cfg[FieldOf(k)] = DefaultValue(k)

UserFileAbsent(files) == ~ReadFile(files, GetUserConfigFilePath).exists

(***************************************************************************)
(* The properties.                                                         *)
(***************************************************************************)
\* C1: for every endpoint that url.Parse accepts and that carries an
\* explicit port, NewWithEndpoint succeeds and returns a record whose Host,
\* Port, Protocol and URI are the host name, the numeric port, the scheme
\* and the path of the parsed URL, with the credentials as supplied (in a
\* build whose default document decodes).
C1_EndpointComponentsMatchParsedURL ==
    (/\ last.op = "NewWithEndpoint"
     /\ DefaultDecodes
     /\ Parse(last.arg.endpoint).ok
     /\ URLPort(Parse(last.arg.endpoint).Host) # <<>>)
    => LET u == Parse(last.arg.endpoint)
       IN  /\ last.err = "nil"
           /\ c # Nil
           /\ c.Host = URLHostname(u.Host)
           /\ c.Port = DigitsValue(URLPort(u.Host), 0)
           /\ c.Protocol = u.Scheme
           /\ c.URI = u.Path
           /\ c.AccessKeyID = last.arg.cred[1]
           /\ c.SecretAccessKey = last.arg.cred[2]

\* C2: for every endpoint that url.Parse accepts and that has no port (an
\* empty port after a trailing ':' and an IPv6 literal without port
\* included), NewWithEndpoint fails with the missing-port error and returns
\* no record.
C2_NoPortFailsWithMissingPortError ==
    (/\ last.op = "NewWithEndpoint"
     /\ DefaultDecodes
     /\ Parse(last.arg.endpoint).ok
     /\ URLPort(Parse(last.arg.endpoint).Host) = <<>>)
    => (c = Nil /\ last.err = "MissingPortError")

\* C3: after a successful LoadConfigFromContent(content), every field whose
\* key appears in content holds the value content gives it and every other
\* field holds the built-in default value, whatever the record held before.
C3_LoadFromContentIsDefaultsThenContent ==
    (last.op = "LoadConfigFromContent" /\ last.err = "nil")
    => \A k \in Keys :
           c[FieldOf(k)] = IF HasKey(last.arg, k) THEN ValueIn(last.arg, k)
                           ELSE DefaultValue(k)

\* C3's case: a successful load of a document that names host and not
\* connection_timeout, onto a record.
C3_Witness ==
    /\ last.op = "LoadConfigFromContent"
    /\ last.err = "nil"
    /\ HasKey(last.arg, "host")
    /\ ~HasKey(last.arg, "connection_timeout")
    /\ c.Host = <<"e", "x", ".", "c", "o", "m">>
    /\ c.ConnectionTimeout = DefaultValue("connection_timeout")

\* C4: LoadConfigFromContent applied a second time in a row with the same
\* content, after it succeeded, succeeds again and leaves the fields, the
\* client and the global log level as the first application left them.
C4_LoadFromContentIdempotent ==
    [][(last'.op = "LoadConfigFromContent" /\ last'.again)
       => (last'.err = "nil" /\ c' = c /\ logLevel' = logLevel)]_vars

\* C4's case: the second of two successive loads of one document that
\* changes the timeout and the log level.
C4_Witness ==
    /\ last.op = "LoadConfigFromContent"
    /\ last.again
    /\ last.err = "nil"
    /\ HasKey(last.arg, "connection_timeout")
    /\ HasKey(last.arg, "log_level")

\* C5: a record always has a client, and whenever a load (LoadDefaultConfig,
\* LoadUserConfig, LoadConfigFromFilepath, LoadConfigFromContent) changes
\* ConnectionTimeout the client it leaves dials with the new timeout.
C5_ClientFollowsConnectionTimeout ==
    [][/\ c' # Nil => c'.Connection # NilClient
       /\ (/\ c # Nil
           /\ c' # Nil
           /\ last'.op \in {"LoadDefaultConfig", "LoadUserConfig",
                            "LoadConfigFromFilepath", "LoadConfigFromContent"}
           /\ c'.ConnectionTimeout # c.ConnectionTimeout)
          => c'.Connection = DialClient(c'.ConnectionTimeout)]_vars

\* C6: a LoadConfigFromContent that fails with a decode error leaves the
\* fields, the client and the global log level as they were.
C6_FailedDecodeLeavesRecordAlone ==
    [][(last'.op = "LoadConfigFromContent" /\ last'.err = "DecodeError")
       => (c' = c /\ logLevel' = logLevel)]_vars

C8_NewDefaultIsTheDefaultDocument ==
    last.op = "NewDefault"
    => IF DefaultDecodes
       THEN /\ last.err = "nil"
            /\ c # Nil
            /\ DefaultsBut(c, {})
            /\ c.Connection = DialClient(DefaultValue("connection_timeout"))
            /\ (\E i \in 1..Len(DefaultConfigFileContent) :
                    DefaultConfigFileContent[i] = Line("connection_timeout", <<"3", "0">>))
               => c.Connection.timeout = 30
       ELSE c = Nil /\ last.err = "DecodeError"

\* C8's case: NewDefault returned a record whose client dials with 30 s.
C8_Witness ==
    /\ last.op = "NewDefault"
    /\ c # Nil
    /\ c.ConnectionTimeout = 30
    /\ c.Connection = DialClient(30)

\* C9: New returns, when the default document decodes, a record with the
\* credentials supplied, every other field at its default value and a
\* client with the default transport (no dial timeout); it fails only when
\* the default document does not decode, and then returns no record.
C9_NewSetsCredentialsOnly ==
    last.op = "New"
    => IF DefaultDecodes
       THEN /\ last.err = "nil"
            /\ c # Nil
            /\ c.AccessKeyID = last.arg[1]
            /\ c.SecretAccessKey = last.arg[2]
            /\ DefaultsBut(c, {"qy_access_key_id", "qy_secret_access_key"})
            /\ c.Connection = DefaultClient
       ELSE c = Nil /\ last.err = "DecodeError"

\* C9's case: New returned a record with the second pair of credentials.
C9_Witness ==
    /\ last.op = "New"
    /\ c # Nil
    /\ c.AccessKeyID = <<"A", "K", "2">>
    /\ c.SecretAccessKey = <<"S", "K", "2">>

\* C10: LoadConfigFromFilepath on a path that, once expanded, cannot be read
\* fails with a file error, and a call that fails with a file error leaves
\* the fields, the client, the global log level and the files as they were.
C10_UnreadableFileChangesNothing ==
    [][last'.op = "LoadConfigFromFilepath"
       => /\ ~ReadFile(fs, ExpandHome(last'.arg)).exists => last'.err = "FileIOError"
          /\ last'.err = "FileIOError"
             => (c' = c /\ logLevel' = logLevel /\ fs' = fs)]_vars

\* C10's case: a failed LoadConfigFromFilepath on a record that an earlier
\* load had moved away from the defaults.
C10_Witness ==
    /\ last.op = "LoadConfigFromFilepath"
    /\ last.err = "FileIOError"
    /\ c.Host = <<"e", "x", ".", "c", "o", "m">>
    /\ logLevel = S_debug
====
